---- MODULE Spec2Model ----
(***************************************************************************)
(* CaptionTrans (src/app.py): the POST /transcribe handler, the upload     *)
(* persistence routine save_upload_to_temp and the SRT formatter.          *)
(*                                                                         *)
(* Strings are sequences of one-character strings.  A float number of      *)
(* seconds is represented by the integer number of half milliseconds it    *)
(* denotes (seconds = halfms / 2000), so that the rounding of              *)
(* round(seconds * 1000) has ties to decide.                               *)
(***************************************************************************)
EXTENDS Integers, Sequences, FiniteSets, TLC

\* ------------------------------------------------------------------ bounds
NumRequests == 2        \* concurrent /transcribe requests
MiB == 2                \* bytes in the model's "MiB" (1024 * 1024 in the code)
ExtraBytes == 2         \* how far a stream may exceed MAX_UPLOAD_BYTES

\* ------------------------------------------------------- program constants
MAX_UPLOAD_MB == 1
MAX_UPLOAD_BYTES == MAX_UPLOAD_MB * MiB
READ_SIZE == MiB
ALLOWED_EXTS ==
    { <<".", "m", "p", "3">>, <<".", "w", "a", "v">>, <<".", "m", "4", "a">>,
      <<".", "m", "p", "4">>, <<".", "m", "k", "v">> }

Req == 1..NumRequests
\* the names mkstemp can draw from: one per request, so that a freed name is
\* drawn again
Paths == 1..NumRequests
MaxStreamLen == MAX_UPLOAD_BYTES + ExtraBytes

\* ---------------------------------------------------------- str primitives
Upper == <<"A", "E", "K", "M", "N", "P", "T", "V", "W", "X">>
LowerOf == <<"a", "e", "k", "m", "n", "p", "t", "v", "w", "x">>

IndexIn(c, s) == IF \E i \in 1..Len(s) : s[i] = c
                 THEN CHOOSE i \in 1..Len(s) : s[i] = c
                 ELSE 0

\* str.lower on one character
LowerChar(c) == IF IndexIn(c, Upper) > 0 THEN LowerOf[IndexIn(c, Upper)] ELSE c

\* str.lower
Lower(s) == [i \in 1..Len(s) |-> LowerChar(s[i])]

IsAlphaChar(c) == IndexIn(c, Upper) > 0 \/ IndexIn(c, LowerOf) > 0

\* str.isalpha: non-empty and every character alphabetic
IsAlpha(s) == Len(s) > 0 /\ \A i \in 1..Len(s) : IsAlphaChar(s[i])

IsSpace(c) == c \in {" ", "\n", "\t"}

\* str.strip
Strip(s) ==
    LET keep == {i \in 1..Len(s) : ~IsSpace(s[i])}
    IN  IF keep = {} THEN <<>>
        ELSE LET lo == CHOOSE i \in keep : \A j \in keep : i <= j
                 hi == CHOOSE i \in keep : \A j \in keep : j <= i
             IN  SubSeq(s, lo, hi)

\* str.rfind of one character, 0-based, -1 when absent
RFind(s, c) ==
    LET at == {i \in 1..Len(s) : s[i] = c}
    IN  IF at = {} THEN -1
        ELSE (CHOOSE i \in at : \A j \in at : j <= i) - 1

\* Path(filename).name: the last path component
PathName(f) == SubSeq(f, RFind(f, "/") + 2, Len(f))

\* Path(filename).suffix: from the last dot of the name, unless the dot is
\* the first or the last character of the name
PathSuffix(f) ==
    LET name == PathName(f)
        i == RFind(name, ".")
    IN  IF 0 < i /\ i < Len(name) - 1 THEN SubSeq(name, i + 1, Len(name)) ELSE <<>>

\* ------------------------------------------------------------ SRT formatter
Digit(d) == <<"0", "1", "2", "3", "4", "5", "6", "7", "8", "9">>[d + 1]

RECURSIVE Dec(_)
\* str(n) for n >= 0
Dec(n) == IF n < 10 THEN <<Digit(n)>> ELSE Dec(n \div 10) \o <<Digit(n % 10)>>

ZeroPad_None(s, w) == s

RECURSIVE ZeroPad(_, _)
\* format spec :0w  (a minimum width: longer numbers are not truncated)
ZeroPad(s, w) == IF Len(s) >= w THEN s ELSE ZeroPad(<<"0">> \o s, w)

RoundMs_Truncate(halfms) == halfms \div 2

\* int(round(seconds * 1000)) for seconds = halfms / 2000: round half to even
RoundMs(halfms) ==
    LET q == halfms \div 2
    IN  IF halfms % 2 = 0 THEN q
        ELSE IF q % 2 = 0 THEN q ELSE q + 1

format_timestamp(seconds) ==
    LET secs == IF seconds < 0 THEN 0 ELSE seconds
        milliseconds == RoundMs(secs)
        hours == milliseconds \div 3600000
        remainder == milliseconds % 3600000
        minutes == remainder \div 60000
        remainder2 == remainder % 60000
        s == remainder2 \div 1000
        ms == remainder2 % 1000
    IN  ZeroPad(Dec(hours), 2) \o <<":">> \o ZeroPad(Dec(minutes), 2) \o <<":">>
        \o ZeroPad(Dec(s), 2) \o <<",">> \o ZeroPad(Dec(ms), 3)

ReplaceArrow_None(s) == s

RECURSIVE ReplaceArrow(_)
\* str.replace("-->", "→")
ReplaceArrow(s) ==
    IF Len(s) = 0 THEN <<>>
    ELSE IF Len(s) >= 3 /\ SubSeq(s, 1, 3) = <<"-", "-", ">">>
         THEN <<"→">> \o ReplaceArrow(SubSeq(s, 4, Len(s)))
         ELSE <<s[1]>> \o ReplaceArrow(Tail(s))

\* dict.get(key, default); a segment dict is a function on its keys
Get(d, key, default) == IF key \in DOMAIN d THEN d[key] ELSE default

SrtBlock_NoTerminator(idx, segment) ==
    Dec(idx) \o <<"\n">> \o format_timestamp(Get(segment, "start", 0))
    \o <<" ", "-", "-", ">", " ">>
    \o format_timestamp(Get(segment, "end", Get(segment, "start", 0)))
    \o <<"\n">> \o Strip(ReplaceArrow(Get(segment, "text", <<>>)))

SrtBlock_EndZero(idx, segment) ==
    Dec(idx) \o <<"\n">> \o format_timestamp(Get(segment, "start", 0))
    \o <<" ", "-", "-", ">", " ">> \o format_timestamp(Get(segment, "end", 0))
    \o <<"\n">> \o Strip(ReplaceArrow(Get(segment, "text", <<>>))) \o <<"\n">>

\* one f-string block of the loop body
SrtBlock(idx, segment) ==
    LET start_raw == Get(segment, "start", 0)
        end_raw == Get(segment, "end", start_raw)
        text_raw == Get(segment, "text", <<>>)
        start_ts == format_timestamp(start_raw)
        end_ts == format_timestamp(end_raw)
        text == Strip(ReplaceArrow(text_raw))
    IN  Dec(idx) \o <<"\n">> \o start_ts \o <<" ", "-", "-", ">", " ">> \o end_ts
        \o <<"\n">> \o text \o <<"\n">>

JoinLines_First(blocks) == IF Len(blocks) = 0 THEN <<>> ELSE blocks[1]

RECURSIVE JoinLines(_)
\* "\n".join(srt_lines)
JoinLines(blocks) ==
    IF Len(blocks) = 0 THEN <<>>
    ELSE IF Len(blocks) = 1 THEN blocks[1]
    ELSE blocks[1] \o <<"\n">> \o JoinLines(Tail(blocks))

build_srt_from_segments_NoEarlyReturn(segments) ==
    Strip(JoinLines([idx \in 1..Len(segments) |-> SrtBlock(idx, segments[idx])])) \o <<"\n">>

build_srt_from_segments_NoStrip(segments) ==
    IF Len(segments) = 0 THEN <<>>
    ELSE JoinLines([idx \in 1..Len(segments) |-> SrtBlock(idx, segments[idx])]) \o <<"\n">>

build_srt_from_segments(segments) ==
    IF Len(segments) = 0 THEN <<>>
    ELSE LET srt_lines == [idx \in 1..Len(segments) |-> SrtBlock(idx, segments[idx])]
         IN  Strip(JoinLines(srt_lines)) \o <<"\n">>

\* _prepare_segments: a dict passes through; any other object becomes a
\* three-key dict built with getattr defaults (item.v holds the keys of a
\* dict, or the attributes of an object)
PrepareItem(item) ==
    IF item.isdict THEN item.v
    ELSE [start |-> Get(item.v, "start", 0),
          end |-> Get(item.v, "end", Get(item.v, "start", 0)),
          text |-> Get(item.v, "text", <<>>)]

_prepare_segments(raw_segments) ==
    [i \in 1..Len(raw_segments) |-> PrepareItem(raw_segments[i])]

\* ------------------------------------------------------------- exceptions
NoExc == [cls |-> "None", status |-> 0, detail |-> ""]

HTTPException(status_code, detail) ==
    [cls |-> "HTTPException", status |-> status_code, detail |-> detail]

\* any other exception class, tagged with the operation that raised it
Raise(cls, op) == [cls |-> cls, status |-> 0, detail |-> op]

\* isinstance(e, Exception): asyncio.CancelledError derives from
\* BaseException only
IsException(e) ==
    e.cls \in {"HTTPException", "OSError", "FileNotFoundError", "OpenAIError", "ValueError"}

IsHTTPException(e) == e.cls = "HTTPException"

\* ------------------------------------------------------------ optionals
None == <<>>
Some(x) == <<x>>

\* --------------------------------------------------------------- inputs
Filenames ==
    { <<>>,
      <<"a", ".", "m", "p", "3">>,
      <<"x", "/", "A", ".", "M", "k", "V">>,
      <<"a", ".", "t", "x", "t">>,
      <<"a", ".", "m", "p", "3", ".", "t", "x", "t">>,
      <<"m", "p", "3">>,
      <<".", "m", "p", "3">>,
      <<"a", ".">> }

LanguageHints ==
    { None, Some(<<>>), Some(<<" ">>), Some(<<"e", "n">>), Some(<<" ", "E", "N", " ">>),
      Some(<<"e", "n", "g">>), Some(<<"e", "1">>), Some(<<"e">>) }

\* raw segments as the collaborator returns them; times in half milliseconds
SegDictFull == [isdict |-> TRUE,
                v |-> [start |-> 0, end |-> 3000, text |-> <<"a", " ", "-", "-", ">", " ", "b">>]]
SegDictNoEnd == [isdict |-> TRUE, v |-> [start |-> 3001, text |-> <<" ", "c", "\n">>]]
SegObjFull == [isdict |-> FALSE, v |-> [start |-> 720002000, end |-> 720002003, text |-> <<"d">>]]
SegObjBare == [isdict |-> FALSE, v |-> [start |-> 5]]

SegmentLists ==
    { <<>>, <<SegDictFull>>, <<SegDictFull, SegDictNoEnd>>, <<SegDictNoEnd, SegDictFull>>,
      <<SegObjFull, SegObjBare>> }

\* what the collaborator can return for response_format = "srt"
SrtStrings ==
    { <<>>, <<"1", "\n", "0", "0", ":", "0", "1", " ", "-", "-", ">", " ", "0", "0", ":", "0", "2",
            "\n", "h", "i", "\n">> }

\* ... and for response_format = "verbose_json": an object with attributes
\* (no get method), or a mapping with items (and a get method)
NoFields == <<>>

VerboseResponses ==
    {[attrs |-> [segments |-> sl], items |-> NoFields, hasget |-> FALSE] : sl \in SegmentLists}
    \cup {[attrs |-> NoFields, items |-> [segments |-> sl], hasget |-> TRUE] :
            sl \in {<<>>, <<SegDictFull>>}}
    \cup {[attrs |-> [text |-> <<"t">>], items |-> NoFields, hasget |-> FALSE],
          [attrs |-> NoFields, items |-> [text |-> <<"t">>], hasget |-> TRUE]}

\* ---------------------------------------------------------------- state
VARIABLES
    fs,     \* the temp directory: path -> [owner, data] for every existing file
    req,    \* per request: position in transcribe / save_upload_to_temp, locals
    call    \* one call of a formatter function: its argument and return value

vars == <<fs, req, call>>

NoResult == [kind |-> "none", status |-> 0, exc |-> NoExc, body |-> <<>>, attachment |-> <<>>]

InitReq ==
    [pc |-> "idle",
     filename |-> <<>>,             \* file.filename
     size |-> 0,                    \* length of the spooled upload
     pos |-> 0,                     \* read position of the upload
     closes |-> 0,                  \* calls of upload.close()
     suffix |-> <<>>,
     save_temp_path |-> 0,          \* temp_path of save_upload_to_temp; 0: unassigned
     temp_path |-> 0,               \* temp_path of transcribe; 0: unassigned
     fd |-> "none",                 \* descriptor returned by mkstemp
     total_bytes |-> 0,
     exc |-> NoExc,                 \* exception in flight
     language_hint |-> None,
     language |-> None,
     translate_to_english |-> FALSE,
     direct_srt |-> TRUE,
     kwargs |-> None,               \* arguments of the collaborator call
     sent |-> None,                 \* file content the collaborator was handed
     response |-> None,
     srt_content |-> <<>>,
     calls |-> 0,                   \* collaborator calls made
     formatted |-> 0,               \* calls of build_srt_from_segments made
     events |-> <<>>,               \* lifecycle events, in order
     failed |-> {},                 \* operations that failed; "cancel" if cancelled
     result |-> NoResult]

\* no formatter call under observation
NoCall == [fn |-> "none", arg |-> <<>>, out |-> None]

Init ==
    /\ fs = <<>>
    /\ req = [r \in Req |-> InitReq]
    /\ call = NoCall

\* the bytes of the upload of request r, of length n, each named by the
\* request and its position
Stream(r, n) == [i \in 1..n |-> <<r, i>>]

Exists(path) == path \in DOMAIN fs

FsCreate(path, owner) ==
    [q \in DOMAIN fs \cup {path} |->
        IF q = path THEN [owner |-> owner, data |-> <<>>] ELSE fs[q]]

FsAppend(path, bytes) == [fs EXCEPT ![path].data = @ \o bytes]

FsRemove(path) == [q \in DOMAIN fs \ {path} |-> fs[q]]

\* operation op fails under the request
Fail(me, op) == [me EXCEPT !.failed = @ \cup {op}]

\* the request ends by an exception leaving transcribe
Raised(me, e) ==
    [me EXCEPT !.pc = "done", !.exc = NoExc,
               !.result = [kind |-> "raised",
                           status |-> IF IsHTTPException(e) THEN e.status
                                      ELSE IF IsException(e) THEN 500 ELSE 0,
                           exc |-> e, body |-> <<>>, attachment |-> <<>>]]

\* ------------------------------------------------- transcribe: validation
\* suffix = Path(file.filename).suffix.lower()
SuffixOf(filename) == Lower(PathSuffix(filename))

\* the check skipped for a name without a suffix
IsAllowed_OnlyIfSuffix(suffix) == suffix = <<>> \/ suffix \in ALLOWED_EXTS

\* suffix not in ALLOWED_EXTS
IsAllowed(suffix) == suffix \in ALLOWED_EXTS

\* the extension looked at before the filename
CheckFilename_ExtensionFirst(filename) ==
    IF ~IsAllowed(SuffixOf(filename)) THEN HTTPException(400, "extension")
    ELSE IF filename = <<>> THEN HTTPException(400, "filename")
    ELSE NoExc

\* lines 1358-1364: the exception raised for the filename, or NoExc
CheckFilename(filename) ==
    IF filename = <<>> THEN HTTPException(400, "filename")
    ELSE IF ~IsAllowed(SuffixOf(filename)) THEN HTTPException(400, "extension")
    ELSE NoExc

\* a request arrives with its form fields and its upload already spooled;
\* transcribe runs up to the call of save_upload_to_temp
Validate(r, I) ==
    /\ UNCHANGED call
    /\ req[r].pc = "idle"
    /\ \E filename \in I.filenames, n \in I.sizes, language_hint \in I.hints,
          translate_to_english \in I.translate, direct_srt \in I.direct :
          LET me == [req[r] EXCEPT !.filename = filename, !.size = n,
                                   !.language_hint = language_hint,
                                   !.translate_to_english = translate_to_english,
                                   !.direct_srt = direct_srt]
              e == CheckFilename(filename)
          IN  req' = [req EXCEPT ![r] =
                        IF e # NoExc THEN Raised(me, e)
                        ELSE [me EXCEPT !.pc = "mkstemp", !.suffix = SuffixOf(filename)]]
    /\ UNCHANGED fs

\* --------------------------------------------------- save_upload_to_temp
\* a name drawn without regard to the files that exist
MkstempNames_NotExclusive(I) == Paths

\* the names tempfile.mkstemp can return: it opens with O_EXCL, so never the
\* name of an existing file
\* (names are interchangeable: a run of several requests draws the first
\* unused one)
MkstempNames(I) ==
    LET unused == {p \in Paths : ~Exists(p)}
    IN  IF I.any_name THEN unused
        ELSE {p \in unused : \A q \in unused : p <= q}

\* os.unlink(path): the outcomes the OS can produce
UnlinkOutcomes(I, path) ==
    IF ~Exists(path) THEN {"FileNotFoundError"}
    ELSE IF "unlink" \in I.faults THEN {"ok", "OSError"}
    ELSE {"ok"}

UnlinkFs(path, outcome) == IF outcome = "ok" THEN FsRemove(path) ELSE fs

Unlinked(me, outcome) ==
    IF outcome = "ok" THEN [me EXCEPT !.events = Append(@, "deleted")]
    ELSE IF outcome = "OSError" THEN Fail(me, "unlink")
    ELSE me

\* which clause of the try statement of save_upload_to_temp takes e
SaveHandler(e) ==
    IF IsHTTPException(e) THEN "except_http"
    ELSE IF IsException(e) THEN "except_exc"
    ELSE "close"

\* e is raised inside the try body, outside the with block
RaiseInSave(me, e) == [me EXCEPT !.pc = SaveHandler(e), !.exc = e]

\* leaving the with block closes the buffer (and the descriptor); a failing
\* flush replaces the exception in flight
WithExit(me, e, flushed) ==
    LET e2 == IF flushed THEN e ELSE Raise("OSError", "flush")
        me2 == [(IF flushed THEN me ELSE Fail(me, "flush")) EXCEPT !.fd = "closed"]
    IN  IF e2 = NoExc
        THEN [me2 EXCEPT !.pc = "close", !.events = Append(@, "written")]
        ELSE RaiseInSave(me2, e2)

\* whether buffer.close() manages to flush
FlushOutcomes(I) == IF "flush" \in I.faults THEN BOOLEAN ELSE {TRUE}

\* line 1295
Mkstemp(r, I) ==
    /\ UNCHANGED call
    /\ req[r].pc = "mkstemp"
    /\ \/ \E p \in MkstempNames(I) :
            /\ fs' = FsCreate(p, r)
            /\ req' = [req EXCEPT ![r] =
                        [@ EXCEPT !.pc = "seek", !.save_temp_path = p, !.fd = "open",
                                  !.total_bytes = 0, !.events = Append(@, "created")]]
       \/ /\ "mkstemp" \in I.faults
          /\ req' = [req EXCEPT ![r] = Raised(Fail(@, "mkstemp"), Raise("OSError", "mkstemp"))]
          /\ UNCHANGED fs

\* line 1298: await upload.seek(0)
Seek(r, I) ==
    /\ UNCHANGED call
    /\ req[r].pc = "seek"
    /\ \/ req' = [req EXCEPT ![r] = [@ EXCEPT !.pc = "fdopen", !.pos = 0]]
       \/ /\ "seek" \in I.faults
          /\ req' = [req EXCEPT ![r] = RaiseInSave(Fail(@, "seek"), Raise("OSError", "seek"))]
    /\ UNCHANGED fs

\* line 1299: os.fdopen(fd, "wb")
Fdopen(r, I) ==
    /\ UNCHANGED call
    /\ req[r].pc = "fdopen"
    /\ \/ req' = [req EXCEPT ![r] = [@ EXCEPT !.pc = "read"]]
       \/ /\ "fdopen" \in I.faults
          /\ req' = [req EXCEPT ![r] =
                       RaiseInSave(Fail(@, "fdopen"), Raise("OSError", "fdopen"))]
    /\ UNCHANGED fs

\* the lengths upload.read(1024 * 1024) can return when left bytes remain
\* (left > 0): at most the size asked for, fewer on a short read
ChunkSizes(I, left) ==
    LET most == IF left < READ_SIZE THEN left ELSE READ_SIZE
    IN  IF I.short_reads THEN 1..most ELSE {most}

\* the comparison off by one
OverLimit_Never(total_bytes) == FALSE

OverLimit_AtLimit(total_bytes) == total_bytes >= MAX_UPLOAD_BYTES

\* total_bytes > MAX_UPLOAD_BYTES
OverLimit(total_bytes) == total_bytes > MAX_UPLOAD_BYTES

\* lines 1301-1310: one iteration of the loop, from the read to the write
\* (or to the exit from the with block)
ReadChunk(r, I) ==
    /\ UNCHANGED call
    /\ req[r].pc = "read"
    /\ LET me == req[r]
           left == me.size - me.pos
       IN  \E flushed \in FlushOutcomes(I) :
           \/ \* the read fails
              /\ "read" \in I.faults
              /\ req' = [req EXCEPT ![r] =
                           WithExit(Fail(me, "read"), Raise("OSError", "read"), flushed)]
              /\ UNCHANGED fs
           \/ \* end of the upload: an empty chunk, break
              /\ left = 0
              /\ req' = [req EXCEPT ![r] = WithExit(me, NoExc, flushed)]
              /\ UNCHANGED fs
           \/ \E k \in ChunkSizes(I, left) :
                LET chunk == SubSeq(Stream(r, me.size), me.pos + 1, me.pos + k)
                    me2 == [me EXCEPT !.pos = @ + k, !.total_bytes = @ + Len(chunk)]
                IN  IF OverLimit(me2.total_bytes)
                    THEN /\ req' = [req EXCEPT ![r] =
                                     WithExit(me2, HTTPException(413, "too large"), flushed)]
                         /\ UNCHANGED fs
                    ELSE \/ /\ fs' = FsAppend(me.save_temp_path, chunk)
                            /\ req' = [req EXCEPT ![r] = me2]
                         \/ /\ "write" \in I.faults
                            /\ req' = [req EXCEPT ![r] =
                                        WithExit(Fail(me2, "write"), Raise("OSError", "write"),
                                                 flushed)]
                            /\ UNCHANGED fs

\* lines 1311-1313: except HTTPException: os.unlink(temp_path); raise
ExceptHTTP(r, I) ==
    /\ UNCHANGED call
    /\ req[r].pc = "except_http"
    /\ LET me == req[r]
       IN  \E u \in UnlinkOutcomes(I, me.save_temp_path) :
             /\ fs' = UnlinkFs(me.save_temp_path, u)
             /\ req' = [req EXCEPT ![r] =
                          [Unlinked(me, u) EXCEPT
                              !.pc = "close",
                              !.exc = IF u = "ok" THEN me.exc ELSE Raise(u, "unlink")]]

\* lines 1314-1317: except Exception: os.unlink(temp_path); raise 500
ExceptException(r, I) ==
    /\ UNCHANGED call
    /\ req[r].pc = "except_exc"
    /\ LET me == req[r]
       IN  \E u \in UnlinkOutcomes(I, me.save_temp_path) :
             /\ fs' = UnlinkFs(me.save_temp_path, u)
             /\ req' = [req EXCEPT ![r] =
                          [Unlinked(me, u) EXCEPT
                              !.pc = "close",
                              !.exc = IF u = "ok" THEN HTTPException(500, "storage")
                                      ELSE Raise(u, "unlink")]]

\* lines 1318-1319: finally: await upload.close(); an exception raised here
\* replaces the one in flight
CloseUpload(r, I) ==
    /\ UNCHANGED call
    /\ req[r].pc = "close"
    /\ LET me == [req[r] EXCEPT !.closes = @ + 1]
       IN  \/ req' = [req EXCEPT ![r] =
                        IF me.exc # NoExc THEN Raised(me, me.exc)
                        ELSE [me EXCEPT !.pc = "check_empty"]]
           \/ /\ "close" \in I.faults
              /\ req' = [req EXCEPT ![r] = Raised(Fail(me, "close"), Raise("OSError", "close"))]
    /\ UNCHANGED fs

\* lines 1321-1325
CheckEmpty(r, I) ==
    /\ UNCHANGED call
    /\ req[r].pc = "check_empty"
    /\ LET me == req[r]
       IN  IF me.total_bytes = 0
           THEN \E u \in UnlinkOutcomes(I, me.save_temp_path) :
                  /\ fs' = UnlinkFs(me.save_temp_path, u)
                  /\ req' = [req EXCEPT ![r] =
                               Raised(Unlinked(me, u),
                                      IF u = "ok" THEN HTTPException(400, "empty")
                                      ELSE Raise(u, "unlink"))]
           ELSE \* return temp_path, assigned at line 1366
                /\ req' = [req EXCEPT ![r] =
                             [me EXCEPT !.pc = "lang", !.temp_path = me.save_temp_path]]
                /\ UNCHANGED fs

\* the awaits of save_upload_to_temp, where a cancellation can arrive
Awaits == {"seek", "read", "close"}

\* the task running the request is cancelled while it is suspended in one of
\* the awaits of save_upload_to_temp: CancelledError is raised there
Cancel(r, I) ==
    /\ UNCHANGED call
    /\ req[r].pc \in Awaits
    /\ req[r].pc \in I.cancels
    /\ LET me == Fail(req[r], "cancel")
           e == Raise("CancelledError", me.pc)
       IN  \/ /\ me.pc = "seek"
              /\ req' = [req EXCEPT ![r] = RaiseInSave(me, e)]
           \/ /\ me.pc = "read"
              /\ \E flushed \in FlushOutcomes(I) :
                    req' = [req EXCEPT ![r] = WithExit(me, e, flushed)]
           \/ /\ me.pc = "close"
              /\ req' = [req EXCEPT ![r] = Raised([me EXCEPT !.closes = @ + 1], e)]
    /\ UNCHANGED fs

\* ------------------------------------------- transcribe: after the upload
\* a str (wrapped in an optional) is truthy when present and non-empty
Truthy(opt) == opt # None /\ opt[1] # <<>>

\* line 1368
StripHint(language_hint) ==
    IF Truthy(language_hint) THEN Some(Strip(language_hint[1])) ELSE None

\* lines 1369-1370: the value of language after the check
NormalizeHint(language_hint) ==
    LET language == StripHint(language_hint)
    IN  IF Truthy(language) THEN Some(Lower(language[1])) ELSE language

BadLanguage_LengthOnly(language) == Len(language) # 2

\* line 1371
BadLanguage(language) == Len(language) # 2 \/ ~IsAlpha(language)

\* lines 1368-1372
CheckLanguage(r, I) ==
    /\ UNCHANGED call
    /\ req[r].pc = "lang"
    /\ LET language == NormalizeHint(req[r].language_hint)
           me == [req[r] EXCEPT !.language = language]
       IN  req' = [req EXCEPT ![r] =
                     IF Truthy(language) /\ BadLanguage(language[1])
                     THEN Raised(me, HTTPException(400, "language"))
                     ELSE [me EXCEPT !.pc = "open"]]
    /\ UNCHANGED fs

\* lines 1403-1410: the exception that leaves the try statement of
\* transcribe when e is raised in its body
TranscribeHandler(e) ==
    IF IsHTTPException(e) THEN e
    ELSE IF e.cls = "OpenAIError" THEN HTTPException(500, "service")
    ELSE IF IsException(e) THEN HTTPException(500, "unexpected")
    ELSE e

RaiseInTranscribe(me, e) == [me EXCEPT !.pc = "finally", !.exc = TranscribeHandler(e)]

\* line 1375: open(temp_path, "rb")
OpenTemp(r, I) ==
    /\ UNCHANGED call
    /\ req[r].pc = "open"
    /\ LET me == req[r]
       IN  \/ /\ Exists(me.temp_path)
              /\ req' = [req EXCEPT ![r] =
                           [me EXCEPT !.pc = "call", !.events = Append(@, "opened")]]
           \/ /\ ~Exists(me.temp_path)
              /\ req' = [req EXCEPT ![r] =
                           RaiseInTranscribe(me, Raise("FileNotFoundError", "open"))]
           \/ /\ "open" \in I.faults
              /\ req' = [req EXCEPT ![r] =
                           RaiseInTranscribe(Fail(me, "open"), Raise("OSError", "open"))]
    /\ UNCHANGED fs

\* the language passed in both modes
CallKwargs_AlwaysLanguage(translate_to_english, direct_srt, language) ==
    [endpoint |-> IF translate_to_english THEN "translations" ELSE "transcriptions",
     response_format |-> IF direct_srt THEN "srt" ELSE "verbose_json",
     language |-> IF Truthy(language) THEN language ELSE None]

\* lines 1376-1390: the keyword arguments of the one collaborator call
CallKwargs(translate_to_english, direct_srt, language) ==
    [endpoint |-> IF translate_to_english THEN "translations" ELSE "transcriptions",
     response_format |-> IF direct_srt THEN "srt" ELSE "verbose_json",
     language |-> IF ~translate_to_english /\ Truthy(language) THEN language ELSE None]

Responses(I, direct_srt) == IF direct_srt THEN I.srt ELSE I.verbose

\* the call tried again after a service error
OnCollaboratorError_Retry(me) == [Fail(me, "service") EXCEPT !.pc = "call"]

\* what transcribe does when the collaborator raises OpenAIError
OnCollaboratorError(me) ==
    RaiseInTranscribe(Fail(me, "service"), Raise("OpenAIError", "create"))

\* lines 1376-1390: the collaborator reads the open file and answers or fails
CallCollaborator(r, I) ==
    /\ UNCHANGED call
    /\ req[r].pc = "call"
    /\ LET translate_to_english == req[r].translate_to_english
           direct_srt == req[r].direct_srt
           me == [req[r] EXCEPT
                        !.kwargs = Some(CallKwargs(translate_to_english, direct_srt,
                                                   req[r].language)),
                        !.sent = Some(fs[req[r].temp_path].data),
                        !.calls = @ + 1,
                        !.events = Append(@, "called")]
       IN     \/ \E response \in Responses(I, direct_srt) :
                   req' = [req EXCEPT ![r] = [me EXCEPT !.pc = "post", !.response = Some(response)]]
              \/ /\ "service" \in I.faults
                 /\ req' = [req EXCEPT ![r] = OnCollaboratorError(me)]
              \/ /\ "client" \in I.faults
                 /\ req' = [req EXCEPT ![r] =
                              RaiseInTranscribe(Fail(me, "client"),
                                                Raise("ValueError", "create"))]
    /\ UNCHANGED fs

\* getattr(obj, name, None) / mapping.get(name)
GetOpt(d, key) == IF key \in DOMAIN d THEN Some(d[key]) ELSE None

\* an empty list taken for missing segments
RawSegments_FalsyIsNone(response) ==
    IF "segments" \in DOMAIN response.attrs /\ response.attrs.segments # <<>>
    THEN Some(response.attrs.segments)
    ELSE IF response.hasget /\ "segments" \in DOMAIN response.items
            /\ response.items.segments # <<>>
         THEN Some(response.items.segments)
    ELSE None

\* missing segments taken for an empty list
RawSegments_EmptyDefault(response) ==
    IF "segments" \in DOMAIN response.attrs THEN Some(response.attrs.segments)
    ELSE IF response.hasget /\ "segments" \in DOMAIN response.items
         THEN Some(response.items.segments)
    ELSE Some(<<>>)

\* lines 1395-1397
RawSegments(response) ==
    LET by_attr == GetOpt(response.attrs, "segments")
    IN  IF by_attr = None /\ response.hasget THEN GetOpt(response.items, "segments")
        ELSE by_attr

Reverse(seq) == [i \in 1..Len(seq) |-> seq[Len(seq) + 1 - i]]

\* the segments formatted in the wrong order
SrtContent_Reordered(direct_srt, response) ==
    IF direct_srt THEN Some(response)
    ELSE LET raw_segments == RawSegments(response)
         IN  IF raw_segments = None THEN None
             ELSE Some(build_srt_from_segments(_prepare_segments(Reverse(raw_segments[1]))))

\* lines 1392-1401: srt_content (optional: None when the segments are missing)
SrtContent(direct_srt, response) ==
    IF direct_srt THEN Some(response)
    ELSE LET raw_segments == RawSegments(response)
         IN  IF raw_segments = None THEN None
             ELSE Some(build_srt_from_segments(_prepare_segments(raw_segments[1])))

\* lines 1392-1401
PostProcess(r) ==
    /\ UNCHANGED call
    /\ req[r].pc = "post"
    /\ LET me == req[r]
           srt_content == SrtContent(me.direct_srt, me.response[1])
       IN  req' = [req EXCEPT ![r] =
                     IF srt_content = None
                     THEN RaiseInTranscribe(me, HTTPException(500, "segments"))
                     ELSE [me EXCEPT !.pc = "finally", !.srt_content = srt_content[1],
                                     !.formatted = IF me.direct_srt THEN @ ELSE @ + 1]]
    /\ UNCHANGED fs

\* every unlink error swallowed
Suppressed_Any(outcome) == TRUE

\* lines 1412-1415: the unlink outcomes the finally block swallows
Suppressed(outcome) == outcome \in {"ok", "FileNotFoundError"}

\* lines 1411-1415: finally: os.unlink(temp_path), then the exception in
\* flight is re-raised or control leaves the try statement
Finally(r, I) ==
    /\ UNCHANGED call
    /\ req[r].pc = "finally"
    /\ LET me == req[r]
       IN  \E u \in UnlinkOutcomes(I, me.temp_path) :
             /\ fs' = UnlinkFs(me.temp_path, u)
             /\ LET me2 == Unlinked(me, u)
                IN  req' = [req EXCEPT ![r] =
                              IF ~Suppressed(u) THEN Raised(me2, Raise(u, "unlink"))
                              ELSE IF me.exc # NoExc THEN Raised(me2, me.exc)
                              ELSE [me2 EXCEPT !.pc = "respond"]]

\* Path(filename).stem: the name without its suffix
PathStem(f) == SubSeq(PathName(f), 1, Len(PathName(f)) - Len(PathSuffix(f)))

\* lines 1417-1418
AttachmentName(filename) ==
    (IF PathStem(filename) # <<>> THEN PathStem(filename)
     ELSE <<"s", "u", "b", "t", "i", "t", "l", "e", "s">>)
    \o <<"_", "e", "n", ".", "s", "r", "t">>

\* lines 1417-1423
Respond(r) ==
    /\ UNCHANGED call
    /\ req[r].pc = "respond"
    /\ req' = [req EXCEPT ![r] =
                 [@ EXCEPT !.pc = "done",
                           !.events = Append(@, "responded"),
                           !.result = [kind |-> "response", status |-> 200, exc |-> NoExc,
                                       body |-> req[r].srt_content,
                                       attachment |-> AttachmentName(req[r].filename)]]]
    /\ UNCHANGED fs

\* ----------------------------------------------------------- specification
\* the operations that can fail for reasons outside the program
Faults ==
    {"mkstemp", "seek", "fdopen", "read", "write", "flush", "close", "unlink", "open",
     "service", "client"}

\* the inputs a run draws from: every input of the model ...
AllInputs ==
    [filenames |-> Filenames, sizes |-> 0..MaxStreamLen, hints |-> LanguageHints,
     srt |-> SrtStrings, verbose |-> VerboseResponses, translate |-> BOOLEAN, direct |-> BOOLEAN,
     faults |-> Faults, cancels |-> Awaits,
     short_reads |-> TRUE, any_name |-> TRUE]

\* ... or, for runs of several concurrent requests, one input of each kind
FewInputs ==
    [filenames |-> {<<"a", ".", "m", "p", "3">>, <<"a", ".", "t", "x", "t">>},
     sizes |-> {1, MAX_UPLOAD_BYTES + 1},
     hints |-> {None},
     srt |-> {<<>>},
     verbose |-> {[attrs |-> [text |-> <<"t">>], items |-> NoFields, hasget |-> FALSE]},
     translate |-> {TRUE}, direct |-> {TRUE},
     faults |-> {"seek", "unlink"}, cancels |-> {"seek"},
     short_reads |-> FALSE, any_name |-> FALSE]

Step(r, I) ==
    \/ Validate(r, I)
    \/ Mkstemp(r, I)
    \/ Seek(r, I)
    \/ Fdopen(r, I)
    \/ ReadChunk(r, I)
    \/ ExceptHTTP(r, I)
    \/ ExceptException(r, I)
    \/ CloseUpload(r, I)
    \/ CheckEmpty(r, I)
    \/ Cancel(r, I)
    \/ CheckLanguage(r, I)
    \/ OpenTemp(r, I)
    \/ CallCollaborator(r, I)
    \/ PostProcess(r)
    \/ Finally(r, I)
    \/ Respond(r)

\* one request, every input
Next == Step(1, AllInputs)

Spec == Init /\ [][Next]_vars

\* concurrent requests
NextConc == \E r \in Req : Step(r, FewInputs)

SpecConc == Init /\ [][NextConc]_vars

\* concurrent requests with every failure, cancellation, short read and name
ManyInputs ==
    [FewInputs EXCEPT !.sizes = {0, 1, MAX_UPLOAD_BYTES + 1}, !.faults = Faults,
                      !.cancels = Awaits, !.short_reads = TRUE, !.any_name = TRUE]

NextConcAll == \E r \in Req : Step(r, ManyInputs)

SpecConcAll == Init /\ [][NextConcAll]_vars

\* ------------------------------------------------- the formatter on its own
\* bounds of the formatter inputs
TsWindow == 3
MaxSegments == 2

\* seconds, in half milliseconds: every value within TsWindow half
\* milliseconds of zero, one second, one minute, one hour and a hundred
\* hours, the values of tests/test_srt.py (1.234, 3661.005, -5), and two
\* binary fractions that are exact ties (0.0625 s, 0.1875 s)
Seconds ==
    UNION {(b - TsWindow)..(b + TsWindow) : b \in {0, 2000, 120000, 7200000, 720000000}}
    \cup {2468, 7322010, -10000, 125, 375}

\* segment dicts: complete, without end, with empty and whitespace-only text,
\* with start only, without start, and past a hundred hours
SegmentPool ==
    { SegDictFull.v,
      SegDictNoEnd.v,
      [start |-> 3000, end |-> 6000, text |-> <<>>],
      [start |-> 6000, end |-> 7000, text |-> <<" ", "\n">>],
      [start |-> 5],
      [end |-> 4000, text |-> <<"-", "-", ">", "-", "-", ">">>],
      [start |-> 720002000, end |-> 720002003, text |-> <<"-", "-", "-", ">", ">">>],
      [start |-> 7000, end |-> 9000, text |-> <<"x", "\n", "\n", "y", "-", "-">>] }

\* items of a collaborator segment list: dicts and attribute objects
RawPool ==
    { SegDictFull, SegDictNoEnd, SegObjFull, SegObjBare,
      [isdict |-> FALSE, v |-> [end |-> 9, text |-> <<"e">>]],
      [isdict |-> FALSE, v |-> [start |-> 7, text |-> <<"f">>]] }

ListsOf(pool) == UNION {[1..k -> pool] : k \in 0..MaxSegments}

InitFormatter ==
    /\ fs = <<>>
    /\ req = [r \in Req |-> InitReq]
    /\ \/ \E seconds \in Seconds :
            call = [fn |-> "format_timestamp", arg |-> seconds, out |-> None]
       \/ \E segments \in ListsOf(SegmentPool) :
            call = [fn |-> "build_srt_from_segments", arg |-> segments, out |-> None]
       \/ \E raw_segments \in ListsOf(RawPool) :
            call = [fn |-> "_prepare_segments", arg |-> raw_segments, out |-> None]

CallFormatTimestamp ==
    /\ call.fn = "format_timestamp" /\ call.out = None
    /\ call' = [call EXCEPT !.out = Some(format_timestamp(call.arg))]
    /\ UNCHANGED <<fs, req>>

CallBuildSrt ==
    /\ call.fn = "build_srt_from_segments" /\ call.out = None
    /\ call' = [call EXCEPT !.out = Some(build_srt_from_segments(call.arg))]
    /\ UNCHANGED <<fs, req>>

CallPrepareSegments ==
    /\ call.fn = "_prepare_segments" /\ call.out = None
    /\ call' = [call EXCEPT !.out = Some(_prepare_segments(call.arg))]
    /\ UNCHANGED <<fs, req>>

NextFormatter == CallFormatTimestamp \/ CallBuildSrt \/ CallPrepareSegments

SpecFormatter == InitFormatter /\ [][NextFormatter]_vars

\* ================================================================== claims
\* the temp files request r created that are still on disk
Owned(r) == {p \in DOMAIN fs : fs[p].owner = r}

Done(r) == req[r].pc = "done"

Created(r) == req[r].save_temp_path # 0

\* the request ended with HTTPException(status_code, detail)
EndedHTTP(r, status_code, detail) ==
    Done(r) /\ req[r].result.exc = HTTPException(status_code, detail)

\* the request ended with a 200 response
Ended200(r) == Done(r) /\ req[r].result.kind = "response" /\ req[r].result.status = 200

\* C1: for every request that created a temp file and ended with a response
\* or an HTTP error (200, a 400 of any validation step, a 500 for a
\* collaborator failure or an unexpected exception), the file no longer
\* exists when the request has terminated.
C1_TempFileGoneAtExit ==
    \A r \in Req :
        Done(r) /\ Created(r)
        /\ (req[r].result.kind = "response" \/ IsHTTPException(req[r].result.exc))
        => Owned(r) = {}

\* C2: when a cancellation that arrived in save_upload_to_temp after the
\* temp file was created propagates out of the request, the temp file has
\* been deleted.
C2_CancelledUploadCleanedUp ==
    \A r \in Req :
        Done(r) /\ Created(r) /\ req[r].result.exc.cls = "CancelledError"
        => Owned(r) = {}

\* the outcomes that only a failed operation or a cancellation produces
FaultOutcome(r) ==
    \/ req[r].result.exc.cls \in {"OSError", "FileNotFoundError", "CancelledError"}
    \/ req[r].result.exc = HTTPException(500, "storage")

\* C3: the outcome of save_upload_to_temp is decided by the stream length n,
\* whatever the chunks: 400 (empty) exactly for n = 0, success exactly for
\* 0 < n <= MAX_UPLOAD_BYTES, 413 exactly for n > MAX_UPLOAD_BYTES; after
\* the 400 and the 413 no temp file remains.
C3_OutcomeBySize ==
    \A r \in Req :
        LET me == req[r]
        IN  /\ me.temp_path # 0 => 0 < me.size /\ me.size <= MAX_UPLOAD_BYTES
            /\ EndedHTTP(r, 413, "too large")
                 => me.size >= MAX_UPLOAD_BYTES + 1 /\ Owned(r) = {}
            /\ EndedHTTP(r, 400, "empty") => me.size = 0 /\ Owned(r) = {}
            /\ Done(r) /\ Created(r) /\ ~FaultOutcome(r)
                 => IF me.size = 0 THEN EndedHTTP(r, 400, "empty")
                    ELSE IF me.size <= MAX_UPLOAD_BYTES THEN me.temp_path # 0
                    ELSE EndedHTTP(r, 413, "too large")

\* a stream one byte over the ceiling, read in more than one chunk, ended 413
\* with the file removed
C3_Witness ==
    \E r \in Req :
        /\ EndedHTTP(r, 413, "too large")
        /\ req[r].size = MAX_UPLOAD_BYTES + 1
        /\ req[r].pos = req[r].size
        /\ Owned(r) = {}

\* C4: a request whose filename is empty or whose lower-cased extension is
\* not an allowed one ends with 400 with no temp file created, no byte of
\* the upload read, and no collaborator call.
C4_RejectedBeforeStorage ==
    \A r \in Req :
        LET me == req[r]
        IN  me.pc # "idle" /\ (me.filename = <<>> \/ SuffixOf(me.filename) \notin ALLOWED_EXTS)
            => /\ Done(r)
               /\ IsHTTPException(me.result.exc) /\ me.result.status = 400
               /\ ~Created(r) /\ Owned(r) = {}
               /\ me.events = <<>>
               /\ me.pos = 0
               /\ me.calls = 0

\* a name with an extension that is not an allowed one was rejected
C4_Witness ==
    \E r \in Req :
        /\ EndedHTTP(r, 400, "extension")
        /\ req[r].filename # <<>>
        /\ PathSuffix(req[r].filename) # <<>>

SaveIO == {"seek", "fdopen", "read", "write", "flush", "close"}

\* C5: when one I/O step of save_upload_to_temp failed (and nothing else
\* went wrong: no other failure, no cancellation), the request ends with the
\* 500 of a storage failure and the temp file has been deleted.
C5_StorageFailureCleansUp ==
    \A r \in Req :
        LET me == req[r]
        IN  Done(r) /\ (\E op \in SaveIO : me.failed = {op})
            => me.result.exc = HTTPException(500, "storage") /\ Owned(r) = {}

\* C6: the error that ends a request is never the error of a failed temp
\* file deletion.
C6_CleanupErrorSuppressed ==
    \A r \in Req : Done(r) => req[r].result.exc.detail # "unlink"

\* C7: the collaborator is called at most once per request, and after a
\* failed call the request only ends, with a 500.
C7_NoRetry ==
    \A r \in Req :
        LET me == req[r]
        IN  /\ me.calls <= 1
            /\ me.failed \cap {"service", "client"} # {}
                 => /\ me.calls = 1
                    /\ me.pc \in {"finally", "done"}
                    /\ Done(r) => me.result.kind = "raised" /\ me.result.status = 500

C7_Witness ==
    \E r \in Req :
        /\ Done(r)
        /\ "service" \in req[r].failed
        /\ req[r].calls = 1
        /\ req[r].result.exc = HTTPException(500, "service")

Occurs(event, r) == \E i \in 1..Len(req[r].events) : req[r].events[i] = event

\* request r created a temp file and has not deleted it
Holds(r) == Created(r) /\ ~Occurs("deleted", r)

IsPrefix(s, t) == Len(s) <= Len(t) /\ s = SubSeq(t, 1, Len(s))

\* C8: under any interleaving of concurrent requests, every request that
\* holds a temp file finds at its path the file it created, holding bytes of
\* its own upload only, until it deletes the file itself; two requests never
\* hold the same path; and the collaborator of a request is handed that
\* request's upload.
C8_Isolation ==
    /\ \A r \in Req :
          Holds(r) =>
             /\ Exists(req[r].save_temp_path)
             /\ fs[req[r].save_temp_path].owner = r
             /\ IsPrefix(fs[req[r].save_temp_path].data, Stream(r, req[r].size))
    /\ \A r1, r2 \in Req :
          r1 # r2 /\ Holds(r1) /\ Holds(r2)
          => req[r1].save_temp_path # req[r2].save_temp_path
    /\ \A r \in Req : req[r].sent # None => req[r].sent[1] = Stream(r, req[r].size)

\* a request that is not over yet has deleted its file, and another request
\* now holds a file under the same name
C8_Witness ==
    \E r1, r2 \in Req :
        /\ r1 # r2
        /\ ~Done(r1) /\ Occurs("deleted", r1)
        /\ Holds(r2) /\ ~Done(r2)
        /\ req[r2].save_temp_path = req[r1].save_temp_path

\* C9: a request that ends with 200 went through created, written, opened,
\* called, deleted, responded, in this order and once each; whenever the
\* collaborator is called it is handed the whole upload; and no response is
\* returned while the temp file exists.
C9_Lifecycle ==
    \A r \in Req :
        LET me == req[r]
        IN  /\ Ended200(r)
                 => me.events = <<"created", "written", "opened", "called", "deleted",
                                  "responded">>
            /\ \A i, j \in 1..Len(me.events) : i # j => me.events[i] # me.events[j]
            /\ me.calls > 0 => me.size > 0 /\ me.sent = Some(Stream(r, me.size))
            /\ me.result.kind = "response" => Owned(r) = {}

\* a 200 for an upload of exactly MAX_UPLOAD_BYTES bytes
C9_Witness ==
    \E r \in Req : Ended200(r) /\ req[r].size = MAX_UPLOAD_BYTES /\ Owned(r) = {}

\* the segments of a verbose response that carries them
SegmentsOf(response) ==
    IF "segments" \in DOMAIN response.attrs THEN response.attrs.segments
    ELSE response.items.segments

\* C10: the body of a 200 response is the collaborator's string itself when
\* direct_srt is true, and build_srt_from_segments of the collaborator's
\* segments, in the order returned, when direct_srt is false.
C10_Body ==
    \A r \in Req :
        LET me == req[r]
        IN  Ended200(r) =>
              IF me.direct_srt THEN me.result.body = me.response[1]
              ELSE me.result.body =
                     build_srt_from_segments(_prepare_segments(SegmentsOf(me.response[1])))

\* "1\n00:00:00,000 --> 00:00:01,500\na → b\n\n2\n00:00:01,500 --> 00:00:01,500\nc\n"
TwoBlocks ==
    <<"1", "\n", "0", "0", ":", "0", "0", ":", "0", "0", ",", "0", "0", "0", " ", "-",
      "-", ">", " ", "0", "0", ":", "0", "0", ":", "0", "1", ",", "5", "0", "0", "\n",
      "a", " ", "→", " ", "b", "\n", "\n", "2", "\n", "0", "0", ":", "0", "0", ":",
      "0", "1", ",", "5", "0", "0", " ", "-", "-", ">", " ", "0", "0", ":", "0", "0",
      ":", "0", "1", ",", "5", "0", "0", "\n", "c", "\n">>

\* a 200 for two segments returned in a given order, with the body expected
\* for them
C10_Witness ==
    \E r \in Req :
        /\ Ended200(r)
        /\ ~req[r].direct_srt
        /\ SegmentsOf(req[r].response[1]) = <<SegDictFull, SegDictNoEnd>>
        /\ req[r].result.body = TwoBlocks

\* --------------------------------------------------------------- C11
\* the language check of transcribe has run for request r
PastLanguageCheck(r) == req[r].temp_path # 0 /\ req[r].pc # "lang"

Letters == Upper \o LowerOf

TwoLetters(s) == Len(s) = 2 /\ \A i \in 1..2 : \E j \in 1..Len(Letters) : Letters[j] = s[i]

\* C11: once the language check has run, a hint that is non-empty after
\* trimming and is not exactly two letters has ended the request with 400; a
\* two-letter hint in any case is accepted and held in lower case; an absent,
\* empty or whitespace-only hint is no hint and is never rejected
C11_LanguageHint ==
    \A r \in Req :
        PastLanguageCheck(r) =>
            LET hint == req[r].language_hint
                trimmed == IF hint = None THEN <<>> ELSE Strip(hint[1])
                rejected == EndedHTTP(r, 400, "language")
            IN  /\ (trimmed # <<>> /\ ~TwoLetters(trimmed)) => rejected
                /\ TwoLetters(trimmed) =>
                    /\ ~rejected
                    /\ req[r].language # None
                    /\ Len(req[r].language[1]) = 2
                    /\ \A i \in 1..2 :
                        /\ \E j \in 1..Len(LowerOf) : LowerOf[j] = req[r].language[1][i]
                        /\ LowerChar(trimmed[i]) = req[r].language[1][i]
                /\ trimmed = <<>> => (~rejected /\ ~Truthy(req[r].language))

C11_Witness ==
    \E r \in Req :
        /\ PastLanguageCheck(r)
        /\ req[r].language_hint = Some(<<" ", "E", "N", " ">>)
        /\ req[r].language = Some(<<"e", "n">>)
        /\ Ended200(r)

\* --------------------------------------------------------------- C12
\* the call under observation is of fn and has returned
Returned(fn) == call.fn = fn /\ call.out # None

Digits == <<"0", "1", "2", "3", "4", "5", "6", "7", "8", "9">>

IsDigits(s) == Len(s) > 0 /\ \A i \in 1..Len(s) : IndexIn(s[i], Digits) > 0

RECURSIVE NumberOf(_)
\* the number a string of decimal digits denotes
NumberOf(s) ==
    IF Len(s) = 0 THEN 0
    ELSE 10 * NumberOf(SubSeq(s, 1, Len(s) - 1)) + IndexIn(s[Len(s)], Digits) - 1

\* position of the n-th occurrence of character c in s; 0 when there is none
NthIndex(s, c, n) ==
    LET at == {i \in 1..Len(s) : s[i] = c /\ Cardinality({j \in 1..i : s[j] = c}) = n}
    IN  IF at = {} THEN 0 ELSE CHOOSE i \in at : TRUE

\* the four fields of a timestamp, as written: the text before the first
\* colon, between the colons, between the second colon and the comma, and
\* after the comma
TsFields(ts) ==
    LET c1 == NthIndex(ts, ":", 1)
        c2 == NthIndex(ts, ":", 2)
        k == NthIndex(ts, ",", 1)
    IN  [hours |-> SubSeq(ts, 1, c1 - 1),
         minutes |-> SubSeq(ts, c1 + 1, c2 - 1),
         seconds |-> SubSeq(ts, c2 + 1, k - 1),
         milliseconds |-> SubSeq(ts, k + 1, Len(ts))]

Zero == <<"0", "0", ":", "0", "0", ":", "0", "0", ",", "0", "0", "0">>

\* M is seconds * 1000 (seconds given in half milliseconds) rounded to the
\* nearest integer, a tie going to the even neighbour
IsRounded(halfms, M) ==
    /\ 2 * M - halfms \in -1..1
    /\ halfms % 2 = 1 => M % 2 = 0

\* C12: the fields of format_timestamp(seconds), read as numbers, are those of
\* M = max(0, round(seconds * 1000)): hours = M div 3600000, minutes =
\* (M mod 3600000) div 60000, seconds = (M mod 60000) div 1000, milliseconds =
\* M mod 1000, so they add up to M with minutes <= 59, seconds <= 59 and
\* milliseconds <= 999; a negative input gives 00:00:00,000
C12_Fields ==
    Returned("format_timestamp") =>
        LET f == TsFields(call.out[1])
            hours == NumberOf(f.hours)
            minutes == NumberOf(f.minutes)
            seconds == NumberOf(f.seconds)
            milliseconds == NumberOf(f.milliseconds)
            M == hours * 3600000 + minutes * 60000 + seconds * 1000 + milliseconds
        IN  /\ IsDigits(f.hours) /\ IsDigits(f.minutes)
            /\ IsDigits(f.seconds) /\ IsDigits(f.milliseconds)
            /\ IsRounded(IF call.arg < 0 THEN 0 ELSE call.arg, M)
            /\ hours = M \div 3600000
            /\ minutes = (M % 3600000) \div 60000
            /\ seconds = (M % 60000) \div 1000
            /\ milliseconds = M % 1000
            /\ minutes <= 59 /\ seconds <= 59 /\ milliseconds <= 999
            /\ call.arg < 0 => call.out[1] = Zero

C12_Witness ==
    /\ Returned("format_timestamp")
    /\ call.arg = 7322010
    /\ call.out[1] = <<"0", "1", ":", "0", "1", ":", "0", "1", ",", "0", "0", "5">>

\* --------------------------------------------------------------- C13
\* the separators of a timestamp are two colons and one comma, and the four
\* fields between them are digits, with minutes, seconds and milliseconds of
\* 2, 2 and 3 digits
FieldsShaped(ts) ==
    LET f == TsFields(ts)
    IN  /\ Cardinality({i \in 1..Len(ts) : ts[i] = ":"}) = 2
        /\ Cardinality({i \in 1..Len(ts) : ts[i] = ","}) = 1
        /\ NthIndex(ts, ":", 2) < NthIndex(ts, ",", 1)
        /\ IsDigits(f.hours) /\ IsDigits(f.minutes)
        /\ IsDigits(f.seconds) /\ IsDigits(f.milliseconds)
        /\ Len(f.minutes) = 2 /\ Len(f.seconds) = 2 /\ Len(f.milliseconds) = 3

\* C13 as stated: for every input, 100 hours or more included, the returned
\* string is exactly 12 characters: two digits, colon, two digits, colon,
\* two digits, comma, three digits
C13_FixedShape ==
    Returned("format_timestamp") =>
        /\ FieldsShaped(call.out[1])
        /\ Len(TsFields(call.out[1]).hours) = 2
        /\ Len(call.out[1]) = 12

\* C13, amended: the returned string is digits, colon, two digits, colon, two
\* digits, comma, three digits; the hours field has exactly two digits, and
\* the string 12 characters, when the input rounds to less than 100 hours,
\* and the hours field is the hour count in three or more digits without a
\* leading zero, the string longer than 12 characters, from 100 hours on
C13_Shape ==
    Returned("format_timestamp") =>
        LET ts == call.out[1]
            hours == TsFields(ts).hours
        IN  /\ FieldsShaped(ts)
            /\ Len(ts) = Len(hours) + 10
            /\ IF call.arg < 2 * 100 * 3600000 - 1
               THEN Len(hours) = 2 /\ Len(ts) = 12
               ELSE Len(hours) >= 3 /\ hours[1] # "0" /\ NumberOf(hours) >= 100

C13_Witness ==
    /\ Returned("format_timestamp")
    /\ call.arg = 2 * 100 * 3600000 + 2
    /\ call.out[1] = <<"1", "0", "0", ":", "0", "0", ":", "0", "0", ",", "0", "0", "1">>

\* --------------------------------------------------------------- C14
\* C14: build_srt_from_segments returns the empty string for the empty
\* sequence and a non-empty string for every non-empty sequence
C14_EmptyIffNoSegments ==
    Returned("build_srt_from_segments") =>
        (call.out[1] = <<>> <=> Len(call.arg) = 0)

\* both cases: the empty sequence is among the inputs, and a sequence of one
\* segment with no text at all has returned its two header lines
C14_Witness ==
    /\ Returned("build_srt_from_segments")
    /\ call.arg = <<[start |-> 3000, end |-> 6000, text |-> <<>>]>>
    /\ Len(call.out[1]) = 32

\* --------------------------------------------------------------- C15
Arrow == <<"-", "-", ">">>

\* the two header lines of block i: the index line and the timestamp line
HeaderOf(i, segment) ==
    LET start == Get(segment, "start", 0)
    IN  Dec(i) \o <<"\n">> \o format_timestamp(start) \o <<" ">> \o Arrow \o <<" ">>
        \o format_timestamp(Get(segment, "end", start)) \o <<"\n">>

\* the text lines of a block
TextOf(segment) == Strip(ReplaceArrow(Get(segment, "text", <<>>)))

RECURSIVE BlockStart(_, _)
\* where block i begins in the output: after the headers and texts of the
\* blocks before it, each followed by the end of its last text line and by
\* one separating line terminator
BlockStart(segments, i) ==
    IF i = 1 THEN 1
    ELSE BlockStart(segments, i - 1) + Len(HeaderOf(i - 1, segments[i - 1]))
         + Len(TextOf(segments[i - 1])) + 2

\* t at position p of s
At(s, p, t) == p + Len(t) - 1 <= Len(s) /\ SubSeq(s, p, p + Len(t) - 1) = t

\* C15: for n segments the output is n blocks in input order: block i begins
\* with the index i on a line of its own and the line
\* format_timestamp(start_i) --> format_timestamp(end_i), is followed by the
\* text of segment i and nothing else up to block i + 1, and nothing follows
\* the text of block n
C15_BlocksInOrder ==
    Returned("build_srt_from_segments") =>
        LET segments == call.arg
            out == call.out[1]
            n == Len(segments)
        IN  \A i \in 1..n :
                LET p == BlockStart(segments, i)
                    header == HeaderOf(i, segments[i])
                    text == TextOf(segments[i])
                IN  /\ At(out, p, header)
                    /\ i > 1 => out[p - 1] = "\n"
                    /\ IF i < n
                       THEN At(out, p + Len(header), text \o <<"\n", "\n">>)
                       ELSE /\ IsPrefix(SubSeq(out, p + Len(header), Len(out)),
                                       text \o <<"\n">>)
                            /\ text # <<>> => Len(out) = p + Len(header) + Len(text)

C15_Witness ==
    /\ Returned("build_srt_from_segments")
    /\ call.arg = <<SegDictNoEnd.v, SegDictFull.v>>
    /\ At(call.out[1], 1, <<"1", "\n", "0", "0", ":", "0", "0", ":", "0", "1", ",", "5", "0", "0">>)
    /\ At(call.out[1], 35, <<"\n", "2", "\n", "0", "0", ":", "0", "0", ":", "0", "0", ",", "0", "0", "0">>)

\* --------------------------------------------------------------- C16
\* positions of s where the token --> begins
ArrowsIn(s) == {p \in 1..Len(s) : At(s, p, Arrow)}

\* where the token of block i's timestamp line begins: after the index, its
\* line terminator, the start timestamp and one space
ArrowOfBlock(segments, i) ==
    BlockStart(segments, i) + Len(Dec(i)) + 1
    + Len(format_timestamp(Get(segments[i], "start", 0))) + 1

Blank(segment) ==
    LET raw == Get(segment, "text", <<>>)
    IN  \A p \in 1..Len(raw) : IsSpace(raw[p])

\* the output ends with one line terminator, and the character before it is
\* not whitespace: no blank line before the end
EndsWithOneTerminator(out) ==
    /\ Len(out) >= 2
    /\ out[Len(out)] = "\n"
    /\ ~IsSpace(out[Len(out) - 1])

\* C17 as stated: for every non-empty sequence, empty and whitespace-only
\* texts included, exactly one blank line stands before the index line of
\* every block after the first, and the output ends with exactly one line
\* terminator with no blank line before it
C17_OneBlankLine ==
    (Returned("build_srt_from_segments") /\ Len(call.arg) > 0) =>
        LET segments == call.arg
            out == call.out[1]
        IN  /\ \A i \in 2..Len(segments) :
                LET p == BlockStart(segments, i)
                IN  At(out, p - 2, <<"\n", "\n">>) /\ out[p - 3] # "\n"
            /\ EndsWithOneTerminator(out)

\* C17, amended: for every non-empty sequence the output ends with exactly
\* one line terminator with no blank line before it, whatever the last text;
\* a block whose text is not blank is separated from the next block by
\* exactly one blank line; a block before the last whose text is empty or
\* whitespace-only has an empty text line, so that two blank lines stand
\* between its timestamp line and the next index line
C17_Separation ==
    (Returned("build_srt_from_segments") /\ Len(call.arg) > 0) =>
        LET segments == call.arg
            out == call.out[1]
        IN  /\ \A i \in 2..Len(segments) :
                LET p == BlockStart(segments, i)
                IN  /\ At(out, p - 2, <<"\n", "\n">>)
                    /\ IF Blank(segments[i - 1])
                       THEN out[p - 3] = "\n" /\ out[p - 4] # "\n"
                       ELSE out[p - 3] # "\n"
            /\ EndsWithOneTerminator(out)

C17_Witness ==
    /\ Returned("build_srt_from_segments")
    /\ call.arg = <<[start |-> 3000, end |-> 6000, text |-> <<>>],
                    [start |-> 6000, end |-> 7000, text |-> <<" ", "\n">>]>>
    /\ At(call.out[1], 29, <<"0", "0", "0", "\n", "\n", "\n", "2", "\n">>)
    /\ Len(call.out[1]) = 66

\* --------------------------------------------------------------- C18
\* the segment with every field written out: a missing start as zero, a
\* missing end as the start, a missing text as the empty string
Complete(fields) ==
    LET start == IF "start" \in DOMAIN fields THEN fields.start ELSE 0
    IN  [start |-> start,
         end |-> IF "end" \in DOMAIN fields THEN fields.end ELSE start,
         text |-> IF "text" \in DOMAIN fields THEN fields.text ELSE <<>>]

\* C18: build_srt_from_segments returns for segments with missing fields what
\* it returns for the same segments with the fields written out: a segment
\* without end has its start timestamp on both sides of the arrow, a segment
\* without text has an empty text line; _prepare_segments hands a dict on as
\* it is and turns any other object into the dict with its fields written out
C18_Defaults ==
    /\ Returned("build_srt_from_segments") =>
        LET segments == call.arg
            out == call.out[1]
            n == Len(segments)
        IN  /\ out = build_srt_from_segments([i \in 1..n |-> Complete(segments[i])])
            /\ \A i \in 1..n :
                LET p == ArrowOfBlock(segments, i)
                    ts == format_timestamp(Complete(segments[i]).start)
                    q == BlockStart(segments, i) + Len(Dec(i)) + 1 + 2 * Len(ts) + 6
                IN  /\ "end" \notin DOMAIN segments[i] =>
                        (At(out, p - 1 - Len(ts), ts) /\ At(out, p + 4, ts))
                    /\ "text" \notin DOMAIN segments[i] =>
                        (At(out, q, <<"\n">>) \/ q = Len(out) + 1)
    /\ Returned("_prepare_segments") =>
        /\ Len(call.out[1]) = Len(call.arg)
        /\ \A i \in 1..Len(call.arg) :
            call.out[1][i] = IF call.arg[i].isdict THEN call.arg[i].v
                             ELSE Complete(call.arg[i].v)

C18_Witness ==
    /\ Returned("build_srt_from_segments")
    /\ call.arg = <<[start |-> 5], SegDictNoEnd.v>>
    /\ At(call.out[1], 1, <<"1", "\n", "0", "0", ":", "0", "0", ":", "0", "0", ",", "0", "0", "2",
                            " ", "-", "-", ">", " ",
                            "0", "0", ":", "0", "0", ":", "0", "0", ",", "0", "0", "2", "\n", "\n", "\n", "2">>)

\* --------------------------------------------------------------- C20
\* save_upload_to_temp has returned temp_path to transcribe for request r
SaveReturned(r) == req[r].temp_path # 0

\* C20: the temp file of a request never holds more than MAX_UPLOAD_BYTES
\* bytes, and what it holds is a prefix of the upload, no longer than the
\* bytes read; once the count of bytes read is above the ceiling the file is
\* still at or below it, the last chunk unwritten; when save_upload_to_temp
\* returns, the file holds the whole upload, the chunks read in order, and
\* its size is in 1..MAX_UPLOAD_BYTES
C20_WrittenWithinLimit ==
    \A r \in Req : \A p \in Owned(r) :
        LET me == req[r]
            data == fs[p].data
        IN  /\ Len(data) <= MAX_UPLOAD_BYTES
            /\ Len(data) <= me.total_bytes
            /\ IsPrefix(data, Stream(r, me.size))
            /\ me.total_bytes > MAX_UPLOAD_BYTES =>
                (Len(data) < me.total_bytes /\ ~SaveReturned(r))
            /\ (SaveReturned(r) /\ p = me.temp_path) =>
                /\ data = Stream(r, me.size)
                /\ Len(data) = me.total_bytes
                /\ Len(data) \in 1..MAX_UPLOAD_BYTES

\* the chunk that crosses the ceiling has been read and counted, and the
\* file, filled to the ceiling by the chunks before it, has not received it
C20_Witness ==
    \E r \in Req : \E p \in Owned(r) :
        /\ req[r].pc = "except_http"
        /\ req[r].exc = HTTPException(413, "too large")
        /\ req[r].total_bytes = MAX_UPLOAD_BYTES + READ_SIZE
        /\ fs[p].data = Stream(r, MAX_UPLOAD_BYTES)

\* --------------------------------------------------------------- C21
\* the collaborator answered request r in verbose mode
VerboseAnswer(r) == ~req[r].direct_srt /\ req[r].response # None

\* the answer has neither a segments attribute nor a segments key
NoSegments(response) ==
    "segments" \notin DOMAIN response.attrs /\ "segments" \notin DOMAIN response.items

\* C21: when direct_srt is false and the collaborator's answer carries no
\* segments, build_srt_from_segments is not called and the error in flight
\* from then on is the 500 for missing segments, never the 500 for an
\* unexpected error; if no file operation fails, the request ends with that
\* 500 and the temp file is deleted
C21_MissingSegments ==
    \A r \in Req :
        (VerboseAnswer(r) /\ NoSegments(req[r].response[1])) =>
            LET me == req[r]
            IN  /\ me.formatted = 0
                /\ me.pc = "finally" => me.exc = HTTPException(500, "segments")
                /\ me.exc # HTTPException(500, "unexpected")
                /\ ~EndedHTTP(r, 500, "unexpected")
                /\ ~Ended200(r)
                /\ (Done(r) /\ me.failed = {}) =>
                    /\ EndedHTTP(r, 500, "segments")
                    /\ me.result.status = 500
                    /\ Owned(r) = {}
                    /\ Occurs("deleted", r)

C21_Witness ==
    \E r \in Req :
        /\ VerboseAnswer(r)
        /\ req[r].response[1] = [attrs |-> NoFields, items |-> [text |-> <<"t">>], hasget |-> TRUE]
        /\ EndedHTTP(r, 500, "segments")
        /\ req[r].formatted = 0
        /\ Owned(r) = {}

\* --------------------------------------------------------------- C22
\* the hint of request r is non-empty after trimming and not two letters
MalformedHint(r) ==
    LET hint == req[r].language_hint
        trimmed == IF hint = None THEN <<>> ELSE Strip(hint[1])
    IN  trimmed # <<>> /\ ~TwoLetters(trimmed)

\* the validation error a request's inputs call for, by the first step that
\* fails: filename present, extension allowed, upload stored, hint well-formed
FirstFailure(r) ==
    LET me == req[r]
    IN  IF me.filename = <<>> THEN HTTPException(400, "filename")
        ELSE IF Lower(PathSuffix(me.filename)) \notin ALLOWED_EXTS
             THEN HTTPException(400, "extension")
        ELSE IF me.size > MAX_UPLOAD_BYTES THEN HTTPException(413, "too large")
        ELSE IF me.size = 0 THEN HTTPException(400, "empty")
        ELSE IF MalformedHint(r) THEN HTTPException(400, "language")
        ELSE NoExc

ValidationErrors ==
    { HTTPException(400, "filename"), HTTPException(400, "extension"),
      HTTPException(413, "too large"), HTTPException(400, "empty"),
      HTTPException(400, "language") }

\* C22: a request in which no operation fails and which is not cancelled ends
\* with the error of the first validation step its inputs fail, in the order
\* filename, extension, storage, language hint, and with none of these errors
\* if they fail none: an oversized upload with a malformed hint gets 413; a
\* filename or extension error comes before any temp file is created; a
\* language error comes only after the whole upload is on disk
C22_ValidationOrder ==
    \A r \in Req :
        (Done(r) /\ req[r].failed = {}) =>
            LET me == req[r]
            IN  /\ IF FirstFailure(r) # NoExc
                   THEN me.result.exc = FirstFailure(r)
                   ELSE me.result.exc \notin ValidationErrors
                /\ me.result.exc \in {HTTPException(400, "filename"),
                                      HTTPException(400, "extension")}
                    => (~Created(r) /\ me.pos = 0)
                /\ EndedHTTP(r, 400, "language") =>
                    /\ me.pos = me.size /\ me.total_bytes = me.size
                    /\ Occurs("written", r)
                    /\ me.closes = 1

C22_Witness ==
    \E r \in Req :
        /\ Done(r) /\ req[r].failed = {}
        /\ req[r].size > MAX_UPLOAD_BYTES
        /\ MalformedHint(r)
        /\ EndedHTTP(r, 413, "too large")

\* --------------------------------------------------------------- C23
\* C23: the collaborator call carries a language only in transcribe mode: a
\* translate-mode call (endpoint translations) never carries one, and a
\* transcribe-mode call carries the lower-cased hint exactly when a hint that
\* is non-empty after trimming was supplied; a malformed hint ends the request
\* with 400 before any call, whatever the mode
C23_LanguageOnlyInTranscribeMode ==
    \A r \in Req :
        LET me == req[r]
            hint == me.language_hint
            trimmed == IF hint = None THEN <<>> ELSE Strip(hint[1])
        IN  /\ me.kwargs # None =>
                LET kwargs == me.kwargs[1]
                IN  /\ kwargs.endpoint = "translations" => kwargs.language = None
                    /\ kwargs.endpoint = "transcriptions" =>
                        /\ kwargs.language # None <=> trimmed # <<>>
                        /\ trimmed # <<>> =>
                            /\ Len(kwargs.language[1]) = Len(trimmed)
                            /\ \A i \in 1..Len(trimmed) :
                                kwargs.language[1][i] = LowerChar(trimmed[i])
                    /\ ~MalformedHint(r)
            /\ (MalformedHint(r) /\ PastLanguageCheck(r)) =>
                (EndedHTTP(r, 400, "language") /\ me.calls = 0 /\ me.kwargs = None)
            /\ me.kwargs # None =>
                (me.kwargs[1].endpoint = "translations" <=> me.translate_to_english)

\* a translate-mode request with a malformed hint has ended with 400
C23_WitnessTranslate ==
    \E r \in Req :
        /\ req[r].translate_to_english
        /\ MalformedHint(r)
        /\ EndedHTTP(r, 400, "language")

\* a transcribe-mode call with the hint " EN " carried as "en"
C23_Witness ==
    \E r \in Req :
        /\ req[r].kwargs # None
        /\ req[r].kwargs[1].endpoint = "transcriptions"
        /\ req[r].language_hint = Some(<<" ", "E", "N", " ">>)
        /\ req[r].kwargs[1].language = Some(<<"e", "n">>)

\* --------------------------------------------------------------- C24
\* save_upload_to_temp was entered, mkstemp returned a descriptor, and the
\* function has been left: by returning the path or by raising
SaveExited(r) == Created(r) /\ (SaveReturned(r) \/ Done(r))

\* C24: on every exit of save_upload_to_temp in which at most one operation
\* failed and which is not a cancellation (success, 413, empty upload, a
\* failed seek, fdopen, read, write, flush, close or unlink) the descriptor
\* returned by mkstemp has been closed and upload.close() has been called
\* exactly once
C24_DescriptorClosed ==
    \A r \in Req :
        (SaveExited(r) /\ "cancel" \notin req[r].failed /\ Cardinality(req[r].failed) <= 1) =>
            (req[r].fd = "closed" /\ req[r].closes = 1)

\* --------------------------------------------------------------- C25
\* the answer carries a segments attribute, or a segments key, and the list
\* under it is empty
EmptySegments(response) ==
    ~NoSegments(response) /\ SegmentsOf(response) = <<>>

\* C25: when direct_srt is false and the collaborator's answer carries an
\* empty segments list, the missing-segments error is never raised and, if no
\* file operation fails, the request ends with 200 and an empty body; an
\* answer without segments ends, under the same condition, with the 500 for
\* missing segments
C25_EmptySegmentsIs200 ==
    \A r \in Req :
        VerboseAnswer(r) =>
            LET me == req[r]
                response == me.response[1]
            IN  /\ EmptySegments(response) =>
                    /\ me.exc # HTTPException(500, "segments")
                    /\ ~EndedHTTP(r, 500, "segments")
                    /\ (Done(r) /\ me.failed = {}) =>
                        (Ended200(r) /\ me.result.body = <<>> /\ me.formatted = 1)
                /\ (NoSegments(response) /\ Done(r) /\ me.failed = {}) =>
                    EndedHTTP(r, 500, "segments")

C25_Witness ==
    \E r \in Req :
        /\ VerboseAnswer(r)
        /\ req[r].response[1] = [attrs |-> NoFields, items |-> [segments |-> <<>>], hasget |-> TRUE]
        /\ Ended200(r)
        /\ req[r].result.body = <<>>

\* --------------------------------------------------------------- C26
\* where sep first occurs in s; 0 when it does not
FirstAt(s, sep) ==
    LET at == {p \in 1..Len(s) : At(s, p, sep)}
    IN  IF at = {} THEN 0 ELSE CHOOSE p \in at : \A q \in at : p <= q

RECURSIVE SplitOn(_, _)
\* the pieces of s between the occurrences of sep, read left to right
SplitOn(s, sep) ==
    LET p == FirstAt(s, sep)
    IN  IF p = 0 THEN <<s>>
        ELSE <<SubSeq(s, 1, p - 1)>> \o SplitOn(SubSeq(s, p + Len(sep), Len(s)), sep)

\* an SRT file read back: the final line terminator dropped, the rest split
\* on blank lines into blocks, each block split into its lines
BlocksOf(out) ==
    IF out = <<>> THEN <<>>
    ELSE LET blocks == SplitOn(SubSeq(out, 1, Len(out) - 1), <<"\n", "\n">>)
         IN  [i \in 1..Len(blocks) |-> SplitOn(blocks[i], <<"\n">>)]

\* the blocks read back are the segments: one block of three lines per
\* segment, holding its position, its two timestamps and its trimmed,
\* arrow-escaped text
RoundTrips(segments, out) ==
    LET blocks == BlocksOf(out)
    IN  /\ Len(blocks) = Len(segments)
        /\ \A i \in 1..Len(segments) :
            LET lines == blocks[i]
                segment == Complete(segments[i])
            IN  /\ Len(lines) = 3
                /\ IsDigits(lines[1]) /\ NumberOf(lines[1]) = i
                /\ lines[2] = format_timestamp(segment.start) \o <<" ">> \o Arrow \o <<" ">>
                              \o format_timestamp(segment.end)
                /\ lines[3] = Strip(ReplaceArrow(segment.text))

Trimmed(segment) == Strip(Complete(segment).text)

\* C26: when every text is, after trimming, non-empty and without a line
\* break, the output read back on blank lines gives one three-line block per
\* segment with the segment's position, formatted timestamps and trimmed,
\* arrow-escaped text; when some text is empty after trimming or holds a
\* blank line, it does not
C26_RoundTrip ==
    Returned("build_srt_from_segments") =>
        LET segments == call.arg
            out == call.out[1]
            n == Len(segments)
        IN  /\ (\A i \in 1..n : Trimmed(segments[i]) # <<>>
                                /\ FirstAt(Trimmed(segments[i]), <<"\n">>) = 0)
                => RoundTrips(segments, out)
            /\ (\E i \in 1..n : Trimmed(segments[i]) = <<>>
                                \/ FirstAt(Trimmed(segments[i]), <<"\n", "\n">>) # 0)
                => ~RoundTrips(segments, out)

C26_Witness ==
    /\ Returned("build_srt_from_segments")
    /\ call.arg = <<SegDictNoEnd.v, SegDictFull.v>>
    /\ BlocksOf(call.out[1])[1][3] = <<"c">>
    /\ BlocksOf(call.out[1])[2][3] = <<"a", " ", "→", " ", "b">>
    /\ RoundTrips(call.arg, call.out[1])

\* a text with a blank line read back as two blocks
C26_WitnessBroken ==
    /\ Returned("build_srt_from_segments")
    /\ call.arg = <<[start |-> 7000, end |-> 9000, text |-> <<"x", "\n", "\n", "y", "-", "-">>]>>
    /\ Len(BlocksOf(call.out[1])) = 2

====
